---------------------------- MODULE Spec2Model ----------------------------
(***************************************************************************)
(* Model of src/src/SideNav.ts: the SideNavElement tree widget             *)
(* (design-docs-sidenav) and its SideNavSearchElement search field         *)
(* (design-docs-sidenav-search).                                           *)
(*                                                                         *)
(* Strings that the code inspects (labels, search strings) are sequences   *)
(* of one-character strings, so that String.prototype.includes is computed *)
(* and is sensitive to case.  Array indices are 0-based as in the source.  *)
(*                                                                         *)
(* The rendered tree is the DOM that lit keeps under <ul role="tree">.     *)
(* Two facts of the html`` templates of render/renderTreeItem shape it:    *)
(*   - aria-expanded="false" is static text of the group template, so it   *)
(*     is written when the <li> is created from the template and by no     *)
(*     later render;                                                       *)
(*   - a child position whose previous value came from the same template   *)
(*     keeps its DOM node and only has its bindings (label, children,      *)
(*     href, text) updated; a position that changes template, or becomes   *)
(*     null, is cleared and built anew.                                    *)
(* Event handlers run to completion together with the reactive update     *)
(* they schedule (the update is a microtask of the same task).             *)
(***************************************************************************)
EXTENDS Integers, Sequences, FiniteSets, TLC

VARIABLES
    routes,        \* SideNavElement.routes
    routeTree,     \* SideNavElement.routeTree
    searchable,    \* SideNavElement.searchable
    searchString,  \* SideNavElement.searchString (@state)
    inputValue,    \* value of the <input type="search"> of the search element
    dom,           \* children of <ul role="tree"> as last committed
    searchHidden,  \* class "hidden" on <design-docs-sidenav-search>
    renderError,   \* TRUE iff the last update threw out of render()
    heard,         \* payloads delivered by the last "search" dispatch, per listener
    lastOp         \* the handler that ran last (history)

vars == <<routes, routeTree, searchable, searchString, inputValue, dom,
          searchHidden, renderError, heard, lastOp>>

---------------------------------------------------------------------------
(* Bounds *)

\* Longest search string typed into the field.
MaxSearchLen == 2

\* Most toggles counted on one rendered group node.
MaxToggles == 2

---------------------------------------------------------------------------
(* Strings *)

Chars == {"A", "a"}

RECURSIVE StringsUpTo(_)
StringsUpTo(n) ==
    IF n = 0 THEN {<<>>}
    ELSE LET shorter == StringsUpTo(n - 1)
         IN shorter \cup {Append(s, c) : s \in {t \in shorter : Len(t) = n - 1}, c \in Chars}

SearchStrings == StringsUpTo(MaxSearchLen)

toLowerCaseChar(c) == IF c = "A" THEN "a" ELSE c

includesIgnoringCase(label, s) ==
    \E k \in 0..(Len(label) - Len(s)) :
        \A i \in 1..Len(s) : toLowerCaseChar(label[k + i]) = toLowerCaseChar(s[i])

\* String.prototype.includes: s occurs in label at some offset k.
includes(label, s) ==
    \E k \in 0..(Len(label) - Len(s)) :
        \A i \in 1..Len(s) : label[k + i] = s[i]

\* JavaScript truthiness of a string: only "" is falsy.
truthy(s) == Len(s) > 0

---------------------------------------------------------------------------
(* Inputs: Route, Routes, RouteTreeItem, RouteTree *)

Route(path, label) == [path |-> path, label |-> label]

Item(index) == [type |-> "ITEM", index |-> index]

Group(label, children) == [type |-> "GROUP", label |-> label, children |-> children]

RoutesAB == <<Route("/a", <<"A", "a">>), Route("/b", <<"a">>)>>

RoutesOne == <<Route("/c", <<"a", "A">>)>>



TreeFlat == <<Item(0), Item(1)>>

TreeGroup == <<Group("G", <<Item(0)>>), Item(1)>>

TreeGroupFresh == <<Group("K", <<Item(1)>>), Item(0)>>

TreeNested == <<Group("G", <<Group("H", <<Item(1)>>), Item(0)>>)>>

TreeSingle == <<Group("S", <<Item(0)>>)>>

\* The <<routes, routeTree>> pairs a host supplies.  With RoutesOne the index 1
\* is out of range.
Inputs ==
    {<<(<<>>), (<<>>)>>, <<RoutesAB, TreeFlat>>, <<RoutesAB, TreeGroup>>,
     <<RoutesAB, TreeGroupFresh>>, <<RoutesAB, TreeNested>>,
     <<RoutesOne, TreeSingle>>, <<RoutesOne, TreeGroup>>,
     <<RoutesOne, TreeGroupFresh>>}

\* The value of an out-of-range array read.
Undefined == [undefined |-> TRUE]

\* this.routes[index]
routesAt(this, index) ==
    IF index + 1 \in DOMAIN this.routes THEN this.routes[index + 1] ELSE Undefined


---------------------------------------------------------------------------
(* SideNavElement: render *)

\* The fields of the element that render reads.
This(rs, rt, sb, ss) ==
    [routes |-> rs, routeTree |-> rt, searchable |-> sb, searchString |-> ss]

\* A thrown TypeError (a property read on undefined).
TypeError == [kind |-> "TypeError"]

\* A null template value: lit renders nothing at that position.
Null == [kind |-> "nothing"]

Returned(b) == [threw |-> FALSE, value |-> b]

Thrown == [threw |-> TRUE, value |-> FALSE]

\* itemHiddenForSearch with route?.label: an undefined route is hidden silently.
itemHiddenForSearchGuarded(this, route) ==
    IF this.searchable /\ truthy(this.searchString)
    THEN IF route = Undefined
         THEN Returned(TRUE)
         ELSE Returned(~includes(route.label, this.searchString))
    ELSE Returned(FALSE)

\* itemHiddenForSearch comparing without regard to case.
itemHiddenForSearchAnyCase(this, route) ==
    IF this.searchable /\ truthy(this.searchString)
    THEN IF route = Undefined
         THEN Thrown
         ELSE Returned(~includesIgnoringCase(route.label, this.searchString))
    ELSE Returned(FALSE)

\* itemHiddenForSearch: route.label on an undefined route throws; the ?. guards
\* only the label, which every Route has.
itemHiddenForSearch(this, route) ==
    IF this.searchable /\ truthy(this.searchString)
    THEN IF route = Undefined
         THEN Thrown
         ELSE Returned(~includes(route.label, this.searchString))
    ELSE Returned(FALSE)

\* The leaf template of renderTreeItem: <li role="treeitem"><a href=path>label</a></li>
leafTemplate(route) == [kind |-> "leaf", href |-> route.path, text |-> route.label]

\* The ITEM branch leaving an empty <li> where a leaf is filtered out.
renderItemPlaceholder(this, treeItem) ==
    LET route == routesAt(this, treeItem.index)
        hidden == itemHiddenForSearch(this, route)
    IN  IF hidden.threw THEN TypeError
        ELSE IF hidden.value THEN [kind |-> "leaf", href |-> "", text |-> <<>>]
        ELSE IF route = Undefined THEN TypeError
        ELSE leafTemplate(route)

\* The ITEM branch of renderTreeItem.
renderItem(this, treeItem) ==
    LET route == routesAt(this, treeItem.index)
        hidden == itemHiddenForSearch(this, route)
    IN  IF hidden.threw THEN TypeError
        ELSE IF hidden.value THEN Null
        ELSE IF route = Undefined THEN TypeError   \* route.path
        ELSE leafTemplate(route)

\* renderTreeItem: the template value of one RouteTreeItem, or the TypeError
\* thrown while building it.
RECURSIVE renderTreeItem(_, _)
renderTreeItem(this, treeItem) ==
    IF treeItem.type = "GROUP"
    THEN LET kids == [i \in DOMAIN treeItem.children |->
                         renderTreeItem(this, treeItem.children[i])]
         IN  IF \E i \in DOMAIN kids : kids[i] = TypeError
             THEN TypeError
             ELSE [kind |-> "group", label |-> treeItem.label, children |-> kids]
    ELSE renderItem(this, treeItem)

\* render: the class of the search element and the values of the tree's child
\* part, this.routeTree.map(item => this.renderTreeItem(item)).
render(this) ==
    LET items == [i \in DOMAIN this.routeTree |-> renderTreeItem(this, this.routeTree[i])]
    IN  [threw |-> \E i \in DOMAIN items : items[i] = TypeError,
         hidden |-> ~this.searchable,
         items |-> items]

---------------------------------------------------------------------------
(* Committing template values to the DOM *)

\* A group <li> as the group template creates it.  toggles counts the calls of
\* treeGroupToggle on this node (history).
newGroup(label) ==
    [kind |-> "group", label |-> label, expanded |-> "false", toggles |-> 0]

RECURSIVE commitChild(_, _), commitIterable(_, _)

\* One child position: old is the node it holds, tpl the value rendered for it.
commitChild(old, tpl) ==
    IF tpl.kind = "group"
    THEN IF old.kind = "group"
         THEN [kind |-> "group", label |-> tpl.label, expanded |-> old.expanded,
               toggles |-> old.toggles,
               children |-> commitIterable(old.children, tpl.children)]
         ELSE [kind |-> "group", label |-> tpl.label,
               expanded |-> newGroup(tpl.label).expanded,
               toggles |-> newGroup(tpl.label).toggles,
               children |-> commitIterable(<<>>, tpl.children)]
    ELSE tpl

\* A sequence of child positions, matched by place.
commitIterable(olds, tpls) ==
    [i \in DOMAIN tpls |->
        commitChild(IF i \in DOMAIN olds THEN olds[i] ELSE Null, tpls[i])]

RECURSIVE rebuild(_)
\* A commit that builds every node anew from its template.
rebuild(tpls) ==
    [i \in DOMAIN tpls |->
        IF tpls[i].kind = "group"
        THEN [kind |-> "group", label |-> tpls[i].label, expanded |-> "false",
              toggles |-> 0, children |-> rebuild(tpls[i].children)]
        ELSE tpls[i]]

commitRebuilding(olds, tpls) == rebuild(tpls)

\* The tree's child part after a render.
commit(olds, tpls) == commitIterable(olds, tpls)

---------------------------------------------------------------------------
(* Group nodes of the rendered tree, addressed by their path of positions *)

RECURSIVE groupPaths(_)
groupPaths(nodes) ==
    UNION { IF nodes[i].kind = "group"
            THEN {<<i>>} \cup {<<i>> \o p : p \in groupPaths(nodes[i].children)}
            ELSE {} : i \in DOMAIN nodes }

RECURSIVE nodeAt(_, _)
nodeAt(nodes, path) ==
    IF Len(path) = 1 THEN nodes[path[1]]
    ELSE nodeAt(nodes[path[1]].children, Tail(path))

\* treeGroupToggle without its collapsing branch.
treeGroupToggleAlwaysExpand(el) == [el EXCEPT !.expanded = "true"]

\* treeGroupToggle: el is the <li> of the label, never null for a mounted label.
treeGroupToggle(el) ==
    IF el.expanded = "true"
    THEN [el EXCEPT !.expanded = "false"]
    ELSE [el EXCEPT !.expanded = "true"]

\* One more call of treeGroupToggle on el (history).
counted(el) == [el EXCEPT !.toggles = @ + 1]

RECURSIVE toggleAt(_, _)
\* The tree after treeGroupToggle(el) with el the <li> at path.
toggleAt(nodes, path) ==
    IF Len(path) = 1
    THEN [nodes EXCEPT ![path[1]] = counted(treeGroupToggle(@))]
    ELSE [nodes EXCEPT ![path[1]].children = toggleAt(@, Tail(path))]

RECURSIVE toggleAlong(_, _)
\* A toggle that also reaches every group above the label.
toggleAlong(nodes, path) ==
    IF Len(path) = 1
    THEN [nodes EXCEPT ![path[1]] = counted(treeGroupToggle(@))]
    ELSE [nodes EXCEPT ![path[1]] =
            [counted(treeGroupToggle(@)) EXCEPT !.children = toggleAlong(@, Tail(path))]]

\* (event.target as HTMLSpanElement).parentElement: the label <span> is a child
\* of its own group's <li>, so the element toggled is the one at the label's path.
parentElementToggled(nodes, path) == toggleAt(nodes, path)

Keys == {"Enter", "Tab", " "}

\* onTreeGroupKeyDown toggling on any key.
onTreeGroupKeyDownAnyKey(nodes, path, key) == parentElementToggled(nodes, path)

\* onTreeGroupKeyDown: the tree after a keydown on the label at path.
onTreeGroupKeyDown(nodes, path, key) ==
    IF key = "Enter" THEN parentElementToggled(nodes, path) ELSE nodes

\* onTreeGroupClick: the tree after a click on the label at path.
onTreeGroupClick(nodes, path) == parentElementToggled(nodes, path)

---------------------------------------------------------------------------
(* The "search" event: SideNavSearchElement.onSearchChange, its dispatch     *)
(* through the two shadow trees, and SideNavElement.onSearch                 *)

\* onSearchChange with bubbles and composed left at their defaults.
onSearchChangeNotComposed(value) ==
    [type |-> "search", detail |-> value, bubbles |-> FALSE, composed |-> FALSE]

\* onSearchChange: new CustomEvent("search", {detail: value, composed: true}).
onSearchChange(value) ==
    [type |-> "search", detail |-> value, bubbles |-> FALSE, composed |-> TRUE]

\* The event's path from its target, the search element, which lives in the
\* shadow tree of the SideNav element: a composed event leaves that shadow tree
\* and is retargeted to its host, where it is again at its target.
eventPath(event) ==
    <<[node |-> "search", atTarget |-> TRUE],
      [node |-> "sideNavShadowRoot", atTarget |-> FALSE]>>
    \o (IF event.composed
        THEN <<[node |-> "sideNav", atTarget |-> TRUE],
               [node |-> "document", atTarget |-> FALSE]>>
        ELSE <<>>)

\* Listeners of a node run when the event is at its target there, or bubbles.
delivered(event, node) ==
    \E i \in DOMAIN eventPath(event) :
        /\ eventPath(event)[i].node = node
        /\ (eventPath(event)[i].atTarget \/ event.bubbles)

\* onSearch ignoring the payload.
onSearchKeep(current, event) == current

\* onSearch: the new value of this.searchString.
onSearch(current, event) == event.detail

\* What a listener for "search" on the given node receives.
payloads(event, node) == IF delivered(event, node) THEN <<event.detail>> ELSE <<>>

NothingHeard == [search |-> <<>>, sideNav |-> <<>>, document |-> <<>>]

---------------------------------------------------------------------------
(* State machine *)

\* After construction and the first update, all properties at their defaults.
Init ==
    /\ routes = <<>>
    /\ routeTree = <<>>
    /\ searchable = FALSE
    /\ searchString = <<>>
    /\ inputValue = <<>>
    /\ dom = <<>>
    /\ searchHidden = TRUE
    /\ renderError = FALSE
    /\ heard = NothingHeard
    /\ lastOp = "connected"

\* The reactive update that follows a change of a property or of the state:
\* render() and, unless it threw, the commit of its values.
performUpdate(this) ==
    LET r == render(this)
    IN  /\ renderError' = r.threw
        /\ dom' = IF r.threw THEN dom ELSE commit(dom, r.items)
        /\ searchHidden' = IF r.threw THEN searchHidden ELSE r.hidden

\* The host assigns element.routes and element.routeTree in one task: one update.
SetInputs(rs, rt) ==
    /\ <<rs, rt>> # <<routes, routeTree>>
    /\ routes' = rs
    /\ routeTree' = rt
    /\ performUpdate(This(rs, rt, searchable, searchString))
    /\ lastOp' = "inputs"
    /\ UNCHANGED <<searchable, searchString, inputValue, heard>>

\* The host sets or removes the searchable attribute.
SetSearchable(sb) ==
    /\ sb # searchable
    /\ searchable' = sb
    /\ performUpdate(This(routes, routeTree, sb, searchString))
    /\ lastOp' = "searchable"
    /\ UNCHANGED <<routes, routeTree, searchString, inputValue, heard>>

\* An input event on the search field whose value has become v.
SearchInput(v) ==
    /\ v # inputValue
    /\ inputValue' = v
    /\ LET event == onSearchChange(v)
           ss == IF delivered(event, "search")
                 THEN onSearch(searchString, event)
                 ELSE searchString
       IN  /\ heard' = [n \in DOMAIN NothingHeard |-> payloads(event, n)]
           /\ searchString' = ss
           /\ IF ss # searchString
              THEN performUpdate(This(routes, routeTree, searchable, ss))
              ELSE UNCHANGED <<dom, searchHidden, renderError>>
    /\ lastOp' = "input"
    /\ UNCHANGED <<routes, routeTree, searchable>>

\* A click on the label of the group at path.
TreeGroupClick(path) ==
    /\ nodeAt(dom, path).toggles < MaxToggles
    /\ dom' = onTreeGroupClick(dom, path)
    /\ lastOp' = "click"
    /\ UNCHANGED <<routes, routeTree, searchable, searchString, inputValue,
                   searchHidden, renderError, heard>>

\* A keydown on the label of the group at path.
TreeGroupKeyDown(path, key) ==
    /\ nodeAt(dom, path).toggles < MaxToggles
    /\ dom' = onTreeGroupKeyDown(dom, path, key)
    /\ lastOp' = (IF key = "Enter" THEN "keydown Enter" ELSE "keydown other")
    /\ UNCHANGED <<routes, routeTree, searchable, searchString, inputValue,
                   searchHidden, renderError, heard>>

Next ==
    \/ \E in \in Inputs : SetInputs(in[1], in[2])
    \/ \E sb \in BOOLEAN : SetSearchable(sb)
    \/ \E v \in SearchStrings : SearchInput(v)
    \/ \E path \in groupPaths(dom) : TreeGroupClick(path)
    \/ \E path \in groupPaths(dom), key \in Keys : TreeGroupKeyDown(path, key)

Spec == Init /\ [][Next]_vars

---------------------------------------------------------------------------
(* Vocabulary of the properties *)

\* Paths of the nodes of the given type in a RouteTree.
RECURSIVE treePaths(_, _)
treePaths(tree, type) ==
    UNION { (IF tree[i].type = type THEN {<<i>>} ELSE {})
            \cup (IF tree[i].type = "GROUP"
                  THEN {<<i>> \o p : p \in treePaths(tree[i].children, type)}
                  ELSE {}) : i \in DOMAIN tree }

RECURSIVE itemAt(_, _)
itemAt(tree, path) ==
    IF Len(path) = 1 THEN tree[path[1]]
    ELSE itemAt(tree[path[1]].children, Tail(path))

InBounds(index) == index >= 0 /\ index < Len(routes)

OutOfBoundsItem ==
    \E p \in treePaths(routeTree, "ITEM") : ~InBounds(itemAt(routeTree, p).index)

\* s is a contiguous part of label, character for character.
IsSubstring(s, label) ==
    \/ s = <<>>
    \/ \E i \in 1..Len(label) : \E j \in i..Len(label) : SubSeq(label, i, j) = s

\* The filter of the specification for the route of an in-bounds index.
FilteredOut(index) ==
    /\ searchable
    /\ searchString # <<>>
    /\ ~IsSubstring(searchString, routes[index + 1].label)

Rendered(path) == nodeAt(dom, path)

RenderOps == {"inputs", "searchable", "input"}

\* C1: an ITEM with an in-bounds index is absent from the rendered tree iff
\* searchable is true, searchString is not empty and the route's label does not
\* contain searchString (case-sensitively); otherwise its leaf is there.
C1_LeafHiddenIffFiltered ==
    ~renderError =>
        \A p \in treePaths(routeTree, "ITEM") :
            LET index == itemAt(routeTree, p).index
            IN  InBounds(index) =>
                    /\ (Rendered(p) = Null) <=> FilteredOut(index)
                    /\ (Rendered(p) # Null) => Rendered(p).kind = "leaf"

\* A search is active, one leaf is filtered out and another one is shown.
C1_Witness ==
    /\ ~renderError /\ searchable /\ searchString # <<>> /\ lastOp = "input"
    /\ \E p, q \in treePaths(routeTree, "ITEM") :
          Rendered(p) = Null /\ Rendered(q) # Null

\* C2: a group node is collapsed when it is created, and after n toggles it is
\* expanded exactly when n is odd.
C2_ExpandedIffOddToggles ==
    \A p \in groupPaths(dom) :
        /\ Rendered(p).expanded \in {"true", "false"}
        /\ (Rendered(p).expanded = "true") <=> (Rendered(p).toggles % 2 = 1)

\* A group has been toggled twice, the second time with Enter, and is collapsed again.
C2_Witness ==
    /\ lastOp = "keydown Enter"
    /\ \E p \in groupPaths(dom) :
          Rendered(p).toggles = 2 /\ Rendered(p).expanded = "false"

\* C3: a keydown with a key other than Enter leaves every expansion state as it is.
C3_OtherKeyChangesNothing ==
    [][\A p \in groupPaths(dom) : \A key \in Keys \ {"Enter"} :
          TreeGroupKeyDown(p, key) => dom' = dom]_vars

\* A key other than Enter was pressed while an expanded and a collapsed group exist.
C3_Witness ==
    /\ lastOp = "keydown other"
    /\ \E p, q \in groupPaths(dom) :
          Rendered(p).expanded = "true" /\ Rendered(q).expanded = "false"

\* C4: every GROUP of routeTree is rendered as a group node with its label, and
\* a change of searchString or searchable neither removes a group node nor
\* changes its expansion state.
C4_GroupsSurviveSearch ==
    [][~renderError' =>
          /\ groupPaths(dom') = treePaths(routeTree', "GROUP")
          /\ \A p \in groupPaths(dom') :
                nodeAt(dom', p).label = itemAt(routeTree', p).label
          /\ (~renderError /\ lastOp' \in {"input", "searchable"}) =>
                \A p \in groupPaths(dom) :
                    nodeAt(dom', p).expanded = nodeAt(dom, p).expanded]_vars

\* After a search event an expanded group is rendered with all its leaves filtered out.
C4_Witness ==
    /\ ~renderError /\ searchable /\ lastOp = "input"
    /\ \E p \in groupPaths(dom) :
          /\ Rendered(p).expanded = "true"
          /\ Rendered(p).children # <<>>
          /\ \A i \in DOMAIN Rendered(p).children : Rendered(p).children[i] = Null

\* C5: the search element emits the field's value v as the payload of "search",
\* SideNav stores it, so searchString is always the value of the last change, and
\* the render that follows shows exactly the leaves that pass the filter for v.
C5_SearchStringIsLastInput ==
    /\ searchString = inputValue
    /\ lastOp = "input" =>
          /\ heard.search = <<inputValue>>
          /\ (~renderError /\ searchable) =>
                \A p \in treePaths(routeTree, "ITEM") :
                    (Rendered(p) # Null) <=>
                        IsSubstring(inputValue, routes[itemAt(routeTree, p).index + 1].label)

\* A non-empty value was typed, it is stored, and the tree shown is filtered by it.
C5_Witness ==
    /\ lastOp = "input" /\ inputValue # <<>> /\ searchString = inputValue
    /\ ~renderError /\ searchable
    /\ \E p \in treePaths(routeTree, "ITEM") : Rendered(p) = Null

\* C7: a routeTree with an ITEM whose index is outside routes makes the update
\* throw, whatever searchable and searchString are, and the update changes
\* nothing of the rendered tree: no leaf, placeholder or empty node is committed.
C7_OutOfBoundsThrows ==
    [][(OutOfBoundsItem' /\ lastOp' \in RenderOps) => (renderError' /\ dom' = dom)]_vars

\* An out-of-bounds index was rendered with a search active: the branch in
\* which itemHiddenForSearch reads the label.
C7_Witness ==
    /\ OutOfBoundsItem /\ renderError
    /\ searchable /\ searchString # <<>> /\ lastOp = "inputs"

\* C8: a listener for "search" on the SideNav element itself is called with
\* payload v on every change of the field's value to v.
C8_HostListenerHearsSearch ==
    lastOp = "input" => heard.sideNav = <<inputValue>>

\* The field changed to a non-empty value and the listener on the host got it.
C8_Witness ==
    lastOp = "input" /\ inputValue # <<>> /\ heard.sideNav = <<inputValue>>

\* The depth-first, input-order image of a RouteTree: a group node per GROUP
\* holding the image of its children, a leaf per ITEM that passes the filter.
RECURSIVE Image(_)
Image(tree) ==
    IF tree = <<>> THEN <<>>
    ELSE LET first == Head(tree)
             node == IF first.type = "GROUP"
                     THEN <<[kind |-> "group", label |-> first.label,
                             children |-> Image(first.children)]>>
                     ELSE IF FilteredOut(first.index) THEN <<>>
                     ELSE <<[kind |-> "leaf", href |-> routes[first.index + 1].path,
                             text |-> routes[first.index + 1].label]>>
         IN  node \o Image(Tail(tree))

\* The element nodes of the rendered tree, without expansion state.
RECURSIVE Visible(_)
Visible(nodes) ==
    IF nodes = <<>> THEN <<>>
    ELSE LET first == Head(nodes)
             node == IF first.kind = "group"
                     THEN <<[kind |-> "group", label |-> first.label,
                             children |-> Visible(first.children)]>>
                     ELSE IF first.kind = "leaf" THEN <<first>>
                     ELSE <<>>
         IN  node \o Visible(Tail(nodes))

\* C9: the rendered tree is the depth-first, input-order image of routeTree,
\* with one leaf (href = path, text = label) per ITEM that is not filtered out
\* and nothing for a filtered one.
C9_RenderedTreeIsImage ==
    ~renderError => Visible(dom) = Image(routeTree)

\* A nested tree is rendered under a search that filters out one of its leaves.
C9_Witness ==
    /\ ~renderError /\ routeTree = TreeNested /\ searchable
    /\ \E p \in treePaths(routeTree, "ITEM") : Rendered(p) = Null
    /\ \E p \in treePaths(routeTree, "ITEM") : Rendered(p) # Null

\* C10: a click or a keydown on the label of the group at path p changes at most
\* the expansion flag of that group, to "true" or "false": every other group
\* keeps its flag, the tree keeps its nodes and searchString is unchanged.
C10_ToggleIsLocal ==
    [][\A p \in groupPaths(dom) :
          (TreeGroupClick(p) \/ \E key \in Keys : TreeGroupKeyDown(p, key)) =>
              /\ searchString' = searchString
              /\ Visible(dom') = Visible(dom)
              /\ groupPaths(dom') = groupPaths(dom)
              /\ nodeAt(dom', p).expanded \in {"true", "false"}
              /\ \A q \in groupPaths(dom) \ {p} :
                    nodeAt(dom', q).expanded = nodeAt(dom, q).expanded]_vars

\* The inner group of a nested tree was toggled and its parent stayed collapsed.
C10_Witness ==
    /\ lastOp \in {"click", "keydown Enter"}
    /\ \E p, q \in groupPaths(dom) :
          /\ Len(q) > Len(p)
          /\ Rendered(q).expanded = "true" /\ Rendered(q).toggles = 1
          /\ Rendered(p).expanded = "false" /\ Rendered(p).toggles = 0

\* C6 as stated: after an update for newly assigned routes/routeTree, every
\* group node is collapsed.
C6_RerenderCollapsesAll ==
    [][(lastOp' = "inputs" /\ ~renderError') =>
          \A p \in groupPaths(dom') : nodeAt(dom', p).expanded = "false"]_vars

=============================================================================
